---- MODULE Spec2Model ----
(***************************************************************************)
(* Model of volatility.py: the credential loader, the Kline parser, the    *)
(* volatility engine (from_klines, hits_over_threshold, print_summary) and *)
(* the command-line loop over the requested symbols.                       *)
(*                                                                         *)
(* Python floats are binary floating-point numbers rounded to nearest,     *)
(* ties to even.  The model keeps that rounding rule and narrows the       *)
(* significand to Precision bits (the exponent is unbounded, so there is   *)
(* neither overflow nor underflow): a float is <<m, e>>, standing for      *)
(* m * 2^e, with m = 0 or 2^(Precision-1) <= |m| < 2^Precision.            *)
(***************************************************************************)
EXTENDS Integers, Sequences, FiniteSets, TLC

VARIABLES pc, credfile, credentials, client, symbols, idx, fetched, status,
          values, kline, klines, vol, stdout, err,
          avg_close, threshold, count, mirrored, vol_mirrored

vars == <<pc, credfile, credentials, client, symbols, idx, fetched, status,
          values, kline, klines, vol, stdout, err,
          avg_close, threshold, count, mirrored, vol_mirrored>>

(***************************************************************************)
(* Bounds of the model.                                                    *)
(***************************************************************************)
Precision == 14
MaxLen == 4

(***************************************************************************)
(* Floating-point arithmetic.                                              *)
(***************************************************************************)
Pow2(k) == 2 ^ k

Abs(x) == IF x < 0 THEN -x ELSE x

Sgn(x) == IF x < 0 THEN -1 ELSE 1

Min2(x, y) == IF x < y THEN x ELSE y

\* n / d (n >= 0, d > 0) rounded to the nearest integer, ties to even
RoundHalfEven(n, d) ==
  LET f == n \div d
      r == n % d
  IN IF 2 * r > d \/ (2 * r = d /\ f % 2 = 1) THEN f + 1 ELSE f

\* (n / d) * 2^e rewritten so that 2^(Precision-1) <= n / d < 2^Precision
RECURSIVE Scale(_, _, _)
Scale(n, d, e) ==
  IF n < d * Pow2(Precision - 1) THEN Scale(2 * n, d, e - 1)
  ELSE IF n >= d * Pow2(Precision) THEN Scale(n, 2 * d, e + 1)
  ELSE <<n, d, e>>

\* the float nearest to (n / d) * 2^e, for d > 0
Fl(n, d, e) ==
  IF n = 0 THEN <<0, 0>>
  ELSE LET s == Scale(Abs(n), d, e)
           m == RoundHalfEven(s[1], s[2])
       IN IF m = Pow2(Precision)
          THEN <<Sgn(n) * Pow2(Precision - 1), s[3] + 1>>
          ELSE <<Sgn(n) * m, s[3]>>

\* the common exponent two floats are compared or added at
AlignExp(a, b) ==
  IF a[1] = 0 THEN b[2] ELSE IF b[1] = 0 THEN a[2] ELSE Min2(a[2], b[2])

\* the significand of a at the (smaller) exponent e
Mant(a, e) == IF a[1] = 0 THEN 0 ELSE a[1] * Pow2(a[2] - e)

fadd(a, b) == Fl(Mant(a, AlignExp(a, b)) + Mant(b, AlignExp(a, b)), 1, AlignExp(a, b))

fneg(a) == <<-a[1], a[2]>>

fsub(a, b) == fadd(a, fneg(b))

fmul(a, b) == Fl(a[1] * b[1], 1, a[2] + b[2])

\* a / b for b # 0
fdiv(a, b) == Fl(Sgn(b[1]) * a[1], Abs(b[1]), a[2] - b[2])

\* an int converted to float
int2float(n) == Fl(n, 1, 0)

\* float("n/d" written as a decimal string), and a float literal of the source
float(s) == Fl(s[1], s[2], 0)

\* a < b and a > b on floats
flt(a, b) == Mant(a, AlignExp(a, b)) < Mant(b, AlignExp(a, b))

fgt(a, b) == Mant(a, AlignExp(a, b)) > Mant(b, AlignExp(a, b))

\* the float literals 0, 1.0 and 100.0
Zero == <<0, 0>>

One == float(<<1, 1>>)

Hundred == float(<<100, 1>>)

\* '%.2f' % f, as the number of hundredths printed (f's exact value rounded)
format2(f) ==
  IF f[2] >= 0 THEN f[1] * Pow2(f[2]) * 100
  ELSE Sgn(f[1]) * RoundHalfEven(Abs(f[1]) * 100, Pow2(-f[2]))

(***************************************************************************)
(* Kline: one raw record of the exchange, parsed.  A raw record is a       *)
(* sequence of wire values; a wire value is <<n, d>>, the decimal string   *)
(* (or the integer, d = 1) n/d, and <<0, 0>> is a string that is no number.*)
(***************************************************************************)
NotANumber == <<0, 0>>

IsNumber(s) == s[2] # 0

\* positions of the fields Kline.__init__ converts with float()
FloatFields == {2, 3, 4, 5, 6, 8, 10, 11}

\* the tuple assignment of lines 39-41 needs exactly 12 values
unpack_accepts_any_longer(values_) == Len(values_) >= 12

unpack_accepts(values_) == Len(values_) = 12

\* the exception Kline(values) raises, "" when it returns
Kline_raises(values_) ==
  IF ~unpack_accepts(values_) THEN "ValueError"
  ELSE IF \E i \in FloatFields : ~IsNumber(values_[i]) THEN "ValueError"
  ELSE ""

Kline(values_) ==
  [open_time |-> values_[1],
   open |-> float(values_[2]),
   high |-> float(values_[3]),
   low |-> float(values_[4]),
   close |-> float(values_[5]),
   volume |-> float(values_[6]),
   close_time |-> values_[7],
   quote_asset_volume |-> float(values_[8]),
   trades |-> values_[9],
   taker_base_volume |-> float(values_[10]),
   taker_quote_volume |-> float(values_[11])]

(***************************************************************************)
(* Volatility.                                                             *)
(***************************************************************************)
volatility_thresholds_short == <<float(<<2, 100>>), float(<<1, 100>>)>>

volatility_thresholds_typo ==
  <<float(<<30, 100>>), float(<<25, 100>>), float(<<20, 100>>), float(<<15, 100>>),
    float(<<10, 100>>), float(<<5, 10>>), float(<<4, 100>>), float(<<3, 100>>),
    float(<<2, 100>>), float(<<1, 100>>), float(<<5, 1000>>), float(<<25, 10000>>)>>

volatility_thresholds ==
  <<float(<<30, 100>>), float(<<25, 100>>), float(<<20, 100>>), float(<<15, 100>>),
    float(<<10, 100>>), float(<<5, 100>>), float(<<4, 100>>), float(<<3, 100>>),
    float(<<2, 100>>), float(<<1, 100>>), float(<<5, 1000>>), float(<<25, 10000>>)>>

gt_operator(a, b) == fgt(a, b)

lt_operator(a, b) == flt(a, b)

comp_operator_gt_only(threshold_, a, b) == gt_operator(a, b)

comp_operator(threshold_, a, b) ==
  IF fgt(threshold_, Zero) THEN gt_operator(a, b) ELSE lt_operator(a, b)

close_threshold_no_one(avg_close_, threshold_) == fmul(avg_close_, threshold_)

close_threshold(avg_close_, threshold_) ==
  fmul(avg_close_, fadd(One, threshold_))

\* one iteration of the loop of lines 116-125 on the pair <<is_over_threshold, count>>
hits_step_every_bar(st, over) ==
  IF over THEN <<TRUE, st[2] + 1>> ELSE <<FALSE, st[2]>>

hits_step(st, over) ==
  IF over
  THEN IF ~st[1] THEN <<TRUE, st[2] + 1>> ELSE st
  ELSE <<FALSE, st[2]>>

RECURSIVE hits_loop(_, _, _, _, _)
hits_loop(klines_, i, threshold_, close_threshold_, st) ==
  IF i > Len(klines_) THEN st[2]
  ELSE hits_loop(klines_, i + 1, threshold_, close_threshold_,
                 hits_step(st, comp_operator(threshold_, klines_[i].close, close_threshold_)))

hits_over_threshold(avg_close_, threshold_, klines_) ==
  hits_loop(klines_, 1, threshold_, close_threshold(avg_close_, threshold_), <<FALSE, 0>>)

\* min(closes), max(closes) and sum(closes) of a non-empty list
RECURSIVE min_from(_, _, _)
min_from(closes, i, best) ==
  IF i > Len(closes) THEN best
  ELSE min_from(closes, i + 1, IF flt(closes[i], best) THEN closes[i] ELSE best)

min(closes) == min_from(closes, 2, closes[1])

RECURSIVE max_from(_, _, _)
max_from(closes, i, best) ==
  IF i > Len(closes) THEN best
  ELSE max_from(closes, i + 1, IF fgt(closes[i], best) THEN closes[i] ELSE best)

max(closes) == max_from(closes, 2, closes[1])

RECURSIVE sum_from(_, _, _)
sum_from(closes, i, acc) ==
  IF i > Len(closes) THEN acc ELSE sum_from(closes, i + 1, fadd(acc, closes[i]))

sum(closes) == sum_from(closes, 1, Zero)

\* the statements of lines 91-93 in the order they run, each with the exception
\* it raises on these closes ("" when it runs through)
from_klines_statements_mean_first(closes) ==
  <<IF Len(closes) = 0 THEN "ZeroDivisionError" ELSE "",
    IF Len(closes) = 0 THEN "ValueError" ELSE "",
    IF Len(closes) = 0 THEN "ValueError" ELSE "">>

from_klines_statements(closes) ==
  <<IF Len(closes) = 0 THEN "ValueError" ELSE "",
    IF Len(closes) = 0 THEN "ValueError" ELSE "",
    IF Len(closes) = 0 THEN "ZeroDivisionError" ELSE "">>

\* the exception from_klines raises, "" when it returns
from_klines_raises(klines_) ==
  LET st == from_klines_statements([i \in 1..Len(klines_) |-> klines_[i].close])
  IN IF st[1] # "" THEN st[1] ELSE IF st[2] # "" THEN st[2] ELSE st[3]

\* the dict {threshold: hits_over_threshold(avg_close, sign * threshold, klines)}
hits_dict(thresholds, avg_close_, negate, klines_) ==
  [t \in {thresholds[i] : i \in 1..Len(thresholds)} |->
     hits_over_threshold(avg_close_, IF negate THEN fneg(t) ELSE t, klines_)]

from_klines(symbol, interval, klines_) ==
  LET closes == [i \in 1..Len(klines_) |-> klines_[i].close]
      avg == fdiv(sum(closes), int2float(Len(closes)))
  IN [symbol |-> symbol,
      interval |-> interval,
      thresholds |-> volatility_thresholds,
      min_close |-> min(closes),
      max_close |-> max(closes),
      avg_close |-> avg,
      high_hits |-> hits_dict(volatility_thresholds, avg, FALSE, klines_),
      low_hits |-> hits_dict(volatility_thresholds, avg, TRUE, klines_)]

\* the exception print_summary raises, "" when it returns
print_summary_raises(self) ==
  IF self.min_close[1] = 0 THEN "ZeroDivisionError" ELSE ""

row_included(self, t) == self.high_hits[t] > 0 \/ self.low_hits[t] > 0

\* the rows of the table of lines 137-140
RECURSIVE table_from(_, _)
table_from(self, i) ==
  IF i > Len(self.thresholds) THEN <<>>
  ELSE LET t == self.thresholds[i]
       IN (IF row_included(self, t)
           THEN <<[line |-> "row", pct |-> format2(fmul(t, Hundred)),
                   high |-> self.high_hits[t], low |-> self.low_hits[t]]>>
           ELSE <<>>) \o table_from(self, i + 1)

\* the lines print_summary writes, in order
print_summary(self) ==
  LET change_pct == fsub(fmul(fdiv(self.max_close, self.min_close), Hundred), Hundred)
      table == table_from(self, 1)
  IN <<[line |-> "headline", symbol |-> self.symbol],
       [line |-> "rule"],
       [line |-> "blank"],
       [line |-> "price", min |-> self.min_close, max |-> self.max_close,
        avg |-> self.avg_close, change |-> format2(change_pct)],
       [line |-> "blank"]>>
     \o (IF table # <<>>
         THEN <<[line |-> "header"], [line |-> "rule"]>> \o table \o <<[line |-> "blank"]>>
         ELSE <<>>)

(***************************************************************************)
(* Values of the variables an operation has not set.                       *)
(***************************************************************************)
None == [none |-> TRUE]

IsNone(x) == "none" \in DOMAIN x

\* a raw record of the exchange whose close is the wire value c
Bar(c) ==
  <<<<1499040000, 1>>, <<163, 10000>>, <<8, 10>>, <<157, 10000>>, c,
    <<148976, 1>>, <<1499644799, 1>>, <<2434, 1>>, <<308, 1>>, <<1756, 1>>,
    <<28, 1>>, <<17928899, 1>>>>

\* the wire values the closes of the candlesticks are drawn from
CloseWire == {<<0, 1>>, <<-1, 1>>, <<9, 10>>, <<1, 1>>, <<13, 10>>}

\* the lists of at most n parsed candlesticks with closes in W
KlineLists(W, n) ==
  UNION {{[i \in 1..k |-> Kline(Bar(c[i]))] : c \in [1..k -> W]} : k \in 0..n}

\* the variables of the command-line run, of Kline(values), of a lone call of
\* hits_over_threshold and of the mirrored list, while another operation runs
IdleMain ==
  /\ credfile = None /\ credentials = None /\ client = None
  /\ symbols = <<"BTCUSDT">> /\ idx = 1 /\ fetched = <<>> /\ status = 0

IdleKline == values = <<>> /\ kline = None

IdleHits == avg_close = Zero /\ threshold = Zero /\ count = 0

IdleMirror == mirrored = <<>> /\ vol_mirrored = None

IdleVol == klines = <<>> /\ vol = None /\ stdout = <<>>

mainVars == <<credfile, credentials, client, symbols, idx, fetched, status>>

klineVars == <<values, kline>>

hitsVars == <<avg_close, threshold, count>>

mirrorVars == <<mirrored, vol_mirrored>>

(***************************************************************************)
(* SpecVol: Volatility.from_klines applied to a list of candlesticks, and  *)
(* print_summary applied to the Volatility it returns.                     *)
(***************************************************************************)
InitVol ==
  /\ pc = "from_klines"
  /\ klines \in KlineLists(CloseWire, MaxLen)
  /\ vol = None
  /\ stdout = <<>>
  /\ err = ""
  /\ IdleMain /\ IdleKline /\ IdleHits /\ IdleMirror

FromKlines ==
  /\ pc = "from_klines"
  /\ IF from_klines_raises(klines) # ""
     THEN /\ err' = from_klines_raises(klines)
          /\ pc' = "raised"
          /\ vol' = vol
     ELSE /\ vol' = from_klines(symbols[idx], "1m", klines)
          /\ pc' = "print_summary"
          /\ err' = err
  /\ UNCHANGED <<mainVars, klineVars, hitsVars, mirrorVars, klines, stdout>>

PrintSummary ==
  /\ pc = "print_summary"
  /\ IF print_summary_raises(vol) # ""
     THEN /\ err' = print_summary_raises(vol)
          /\ pc' = "raised"
          /\ stdout' = stdout
     ELSE /\ stdout' = stdout \o print_summary(vol)
          /\ pc' = "done"
          /\ err' = err
  /\ UNCHANGED <<mainVars, klineVars, hitsVars, mirrorVars, klines, vol>>

NextVol == FromKlines \/ PrintSummary

SpecVol == InitVol /\ [][NextVol]_vars

(***************************************************************************)
(* SpecHits: one call of hits_over_threshold(avg_close, threshold, klines).*)
(***************************************************************************)
MaxBars == 9

\* the closes of the bars and the averages of a lone call
HitsWire == {<<7, 10>>, <<13, 10>>}

AvgWire == {<<1, 1>>}

SignedThresholds ==
  {volatility_thresholds[i] : i \in 1..Len(volatility_thresholds)}
  \cup {fneg(volatility_thresholds[i]) : i \in 1..Len(volatility_thresholds)}

InitHits ==
  /\ pc = "hits_over_threshold"
  /\ klines \in KlineLists(HitsWire, MaxBars)
  /\ avg_close \in {float(a) : a \in AvgWire}
  /\ threshold \in SignedThresholds
  /\ count = 0
  /\ vol = None /\ stdout = <<>>
  /\ err = ""
  /\ IdleMain /\ IdleKline /\ IdleMirror

HitsOverThreshold ==
  /\ pc = "hits_over_threshold"
  /\ count' = hits_over_threshold(avg_close, threshold, klines)
  /\ pc' = "done"
  /\ UNCHANGED <<mainVars, klineVars, mirrorVars, klines, vol, stdout, err,
                 avg_close, threshold>>

NextHits == HitsOverThreshold

SpecHits == InitHits /\ [][NextHits]_vars

(***************************************************************************)
(* SpecMirror: from_klines on a list of candlesticks and on the list       *)
(* mirrored around the average close, close' = 2 * avg_close - close.      *)
(***************************************************************************)
MirrorWire == {<<0, 1>>, <<7, 10>>, <<1, 1>>, <<105, 100>>, <<13, 10>>}

Two == float(<<2, 1>>)

mirror(avg_close_, klines_) ==
  [i \in 1..Len(klines_) |->
     [klines_[i] EXCEPT !.close = fsub(fmul(Two, avg_close_), klines_[i].close)]]

InitMirror ==
  /\ pc = "mirror"
  /\ klines \in KlineLists(MirrorWire, MaxLen) \ {<<>>}
  /\ vol = None /\ stdout = <<>>
  /\ err = ""
  /\ IdleMain /\ IdleKline /\ IdleHits /\ IdleMirror

Mirror ==
  /\ pc = "mirror"
  /\ vol' = from_klines(symbols[idx], "1m", klines)
  /\ mirrored' = mirror(vol'.avg_close, klines)
  /\ vol_mirrored' = from_klines(symbols[idx], "1m", mirrored')
  /\ pc' = "done"
  /\ UNCHANGED <<mainVars, klineVars, hitsVars, klines, stdout, err>>

NextMirror == Mirror

SpecMirror == InitMirror /\ [][NextMirror]_vars

(***************************************************************************)
(* SpecKline: Kline(values) on one raw record.                             *)
(***************************************************************************)
MaxFields == 13

\* the raw record of n wire values whose close is c, with position bad (if any)
\* holding a string that is no number
Record(n, c, bad) ==
  [i \in 1..n |-> IF i = bad THEN NotANumber ELSE IF i = 5 THEN c ELSE <<i, 10>>]

InitKline ==
  /\ pc = "Kline"
  /\ values \in {Record(n, c, bad) : n \in 0..MaxFields, c \in CloseWire, bad \in 0..MaxFields}
  /\ kline = None
  /\ err = ""
  /\ IdleMain /\ IdleHits /\ IdleMirror /\ IdleVol

KlineInit ==
  /\ pc = "Kline"
  /\ IF Kline_raises(values) # ""
     THEN /\ err' = Kline_raises(values)
          /\ pc' = "raised"
          /\ kline' = kline
     ELSE /\ kline' = Kline(values)
          /\ pc' = "done"
          /\ err' = err
  /\ UNCHANGED <<mainVars, hitsVars, mirrorVars, values, klines, vol, stdout>>

NextKline == KlineInit

SpecKline == InitKline /\ [][NextKline]_vars

(***************************************************************************)
(* Spec: one run of the command line, from load_credentials to the exit    *)
(* of the process.                                                         *)
(***************************************************************************)
MaxSymbols == 3

SymbolNames == <<"APPCBTC", "MTHBTC", "BNBBTC", "BTCUSDT", "ETHBTC">>

\* credentials.secret: whether it exists, whether it can be read, and what its
\* content is to json.load (no JSON, a JSON object with these keys, a JSON array)
CredFiles ==
  {[exists |-> FALSE, readable |-> FALSE, json |-> "invalid", keys |-> {}],
   [exists |-> TRUE, readable |-> FALSE, json |-> "object", keys |-> {"key", "secret"}],
   [exists |-> TRUE, readable |-> TRUE, json |-> "invalid", keys |-> {}],
   [exists |-> TRUE, readable |-> TRUE, json |-> "array", keys |-> {}],
   [exists |-> TRUE, readable |-> TRUE, json |-> "object", keys |-> {}],
   [exists |-> TRUE, readable |-> TRUE, json |-> "object", keys |-> {"key"}],
   [exists |-> TRUE, readable |-> TRUE, json |-> "object", keys |-> {"secret"}],
   [exists |-> TRUE, readable |-> TRUE, json |-> "object", keys |-> {"key", "secret", "note"}],
   [exists |-> TRUE, readable |-> TRUE, json |-> "object", keys |-> {"key", "secret"}]}

\* what client.get_historical_klines does: it raises, or returns raw records
FetchOutcomes ==
  {[raises |-> "BinanceAPIException", klines |-> <<>>],
   [raises |-> "BinanceRequestException", klines |-> <<>>],
   [raises |-> "", klines |-> <<>>],
   [raises |-> "", klines |-> <<Bar(<<1, 1>>), Bar(<<13, 10>>), Bar(<<1, 1>>)>>],
   [raises |-> "", klines |-> <<Bar(<<1, 1>>), Bar(<<1, 1>>)>>],
   [raises |-> "", klines |-> <<Bar(<<0, 1>>), Bar(<<1, 1>>)>>],
   [raises |-> "", klines |-> <<Bar(<<1, 1>>), Record(11, <<1, 1>>, 0)>>],
   [raises |-> "", klines |-> <<Bar(NotANumber)>>]}

Init ==
  /\ pc = "load_credentials"
  /\ credfile \in CredFiles
  /\ credentials = None
  /\ client = None
  /\ symbols \in {[i \in 1..n |-> SymbolNames[i]] : n \in 1..MaxSymbols}
  /\ idx = 1
  /\ fetched = <<>>
  /\ status = 0
  /\ err = ""
  /\ IdleKline /\ IdleHits /\ IdleMirror /\ IdleVol

\* the exception the try block of load_credentials raises, "" when it runs through
load_credentials_raises(f) ==
  IF ~f.exists THEN "IOError"
  ELSE IF ~f.readable THEN "IOError"
  ELSE IF f.json = "invalid" THEN "ValueError"
  ELSE ""

\* what json.load returns
load_credentials(f) == [type |-> f.json, keys |-> f.keys]

\* the exception credentials['key'], credentials['secret'] raises (line 168)
subscript_raises(credentials_) ==
  IF credentials_.type # "object" THEN "TypeError"
  ELSE IF "key" \notin credentials_.keys THEN "KeyError"
  ELSE IF "secret" \notin credentials_.keys THEN "KeyError"
  ELSE ""

LoadCredentials ==
  /\ pc = "load_credentials"
  /\ IF load_credentials_raises(credfile) # ""
     THEN /\ stdout' = stdout \o <<[line |-> "Failed to load credentials at",
                                    path |-> "credentials.secret"]>>
          /\ status' = 1
          /\ pc' = "exit"
          /\ credentials' = credentials
     ELSE /\ credentials' = load_credentials(credfile)
          /\ pc' = "Client"
          /\ UNCHANGED <<stdout, status>>
  /\ UNCHANGED <<credfile, client, symbols, idx, fetched, err,
                 klineVars, hitsVars, mirrorVars, klines, vol>>

NewClient ==
  /\ pc = "Client"
  /\ IF subscript_raises(credentials) # ""
     THEN /\ err' = subscript_raises(credentials)
          /\ status' = 1
          /\ pc' = "exit"
          /\ client' = client
     ELSE /\ client' = [api_key |-> "key", api_secret |-> "secret"]
          /\ pc' = "get"
          /\ UNCHANGED <<err, status>>
  /\ UNCHANGED <<credfile, credentials, symbols, idx, fetched, stdout,
                 klineVars, hitsVars, mirrorVars, klines, vol>>

\* [Kline(bar) for bar in klines]: the exception it raises, and the list
parse_raises(raw) ==
  IF \E i \in 1..Len(raw) : Kline_raises(raw[i]) # "" THEN "ValueError" ELSE ""

parse(raw) == [i \in 1..Len(raw) |-> Kline(raw[i])]

\* the except clause of Volatility.get: where the run goes and with what status
get_except_skip_symbol(i) == [pc |-> "get", idx |-> i + 1, status |-> 0]

get_except(i) == [pc |-> "exit", idx |-> i, status |-> 1]

\* vol = Volatility.get(symbol, args.interval, args.period) of the loop at line 172
Get ==
  /\ pc = "get"
  /\ idx <= Len(symbols)
  /\ \E o \in FetchOutcomes :
       /\ fetched' = Append(fetched, [symbol |-> symbols[idx], outcome |-> o])
       /\ IF o.raises = "BinanceAPIException"
          THEN /\ stdout' = stdout \o <<[line |-> "BinanceAPIException"]>>
               /\ err' = o.raises
               /\ pc' = get_except(idx).pc
               /\ idx' = get_except(idx).idx
               /\ status' = get_except(idx).status
               /\ UNCHANGED <<klines, vol>>
          ELSE IF o.raises # ""
          THEN /\ err' = o.raises
               /\ status' = 1
               /\ pc' = "exit"
               /\ UNCHANGED <<klines, vol, stdout, idx>>
          ELSE IF parse_raises(o.klines) # ""
          THEN /\ err' = parse_raises(o.klines)
               /\ status' = 1
               /\ pc' = "exit"
               /\ UNCHANGED <<klines, vol, stdout, idx>>
          ELSE IF from_klines_raises(parse(o.klines)) # ""
          THEN /\ err' = from_klines_raises(parse(o.klines))
               /\ klines' = parse(o.klines)
               /\ status' = 1
               /\ pc' = "exit"
               /\ UNCHANGED <<vol, stdout, idx>>
          ELSE /\ klines' = parse(o.klines)
               /\ vol' = from_klines(symbols[idx], "1m", klines')
               /\ pc' = "vol.print_summary"
               /\ UNCHANGED <<err, status, stdout, idx>>
  /\ UNCHANGED <<credfile, credentials, client, symbols,
                 klineVars, hitsVars, mirrorVars>>

\* vol.print_summary() of the loop at line 173
VolPrintSummary ==
  /\ pc = "vol.print_summary"
  /\ IF print_summary_raises(vol) # ""
     THEN /\ err' = print_summary_raises(vol)
          /\ status' = 1
          /\ pc' = "exit"
          /\ UNCHANGED <<stdout, idx>>
     ELSE /\ stdout' = stdout \o print_summary(vol)
          /\ idx' = idx + 1
          /\ pc' = "get"
          /\ UNCHANGED <<err, status>>
  /\ UNCHANGED <<credfile, credentials, client, symbols, fetched,
                 klineVars, hitsVars, mirrorVars, klines, vol>>

\* the loop is over: the script ends, and the process exits with status 0
EndOfScript ==
  /\ pc = "get"
  /\ idx > Len(symbols)
  /\ pc' = "exit"
  /\ UNCHANGED <<credfile, credentials, client, symbols, idx, fetched, status,
                 klineVars, hitsVars, mirrorVars, klines, vol, stdout, err>>

Next == LoadCredentials \/ NewClient \/ Get \/ VolPrintSummary \/ EndOfScript

Spec == Init /\ [][Next]_vars

(***************************************************************************)
(* The claims.                                                             *)
(***************************************************************************)
\* the ladder of the specification, as decimal strings, largest first
LadderWire ==
  <<<<30, 100>>, <<25, 100>>, <<20, 100>>, <<15, 100>>, <<10, 100>>, <<5, 100>>,
    <<4, 100>>, <<3, 100>>, <<2, 100>>, <<1, 100>>, <<5, 1000>>, <<25, 10000>>>>

Ladder == [i \in 1..Len(LadderWire) |-> float(LadderWire[i])]

LadderValues == {Ladder[i] : i \in 1..Len(Ladder)}

\* the bars whose close is strictly beyond avg*(1+s): above for s > 0, below for s < 0
QualifyingBars(avg, s, ks) ==
  LET bound == fmul(avg, fadd(One, s))
  IN {i \in 1..Len(ks) : IF s[1] > 0 THEN fgt(ks[i].close, bound)
                                     ELSE flt(ks[i].close, bound)}

\* the first bars of the maximal runs of qualifying bars
RunStartsOf(q) == {i \in q : i = 1 \/ (i - 1) \notin q}

AllClosesPositive(ks) == \A i \in 1..Len(ks) : ks[i].close[1] > 0

\* C1: hits_over_threshold returns the number of maximal runs of qualifying
\* bars (strictly above avg_close*(1+s) for s > 0, strictly below for s < 0), and
\* that is the number of qualifying bars only when every run has length 1.
C1_CountsRuns ==
  pc = "done" =>
    LET q == QualifyingBars(avg_close, threshold, klines)
    IN /\ count = Cardinality(RunStartsOf(q))
       /\ (count = Cardinality(q)) <=> (q = RunStartsOf(q))

\* a run of 5 qualifying bars, one bar that does not qualify, a run of 3: 2, not 8
C1_Witness ==
  /\ pc = "done"
  /\ QualifyingBars(avg_close, threshold, klines) = {1, 2, 3, 4, 5, 7, 8, 9}
  /\ Len(klines) = 9
  /\ count = 2

\* C3: high_hits and low_hits of every Volatility from_klines returns are keyed
\* by exactly the 12 values of the ladder, thresholds of count 0 included.
C3_LadderKeys ==
  ~IsNone(vol) =>
    /\ DOMAIN vol.high_hits = LadderValues
    /\ DOMAIN vol.low_hits = LadderValues
    /\ Cardinality(DOMAIN vol.high_hits) = 12
    /\ Cardinality(DOMAIN vol.low_hits) = 12

C3_Witness ==
  /\ ~IsNone(vol)
  /\ \E t \in DOMAIN vol.high_hits : vol.high_hits[t] = 0 /\ vol.low_hits[t] = 0
  /\ \E t \in DOMAIN vol.high_hits : vol.high_hits[t] > 0

\* C8 as stated: from_klines on an empty list fails with a division by zero in
\* the average close; no Volatility is returned, nothing is printed.
C8_Original ==
  (klines = <<>> /\ pc # "from_klines") =>
    /\ pc = "raised"
    /\ err = "ZeroDivisionError"
    /\ IsNone(vol)
    /\ stdout = <<>>

\* C8 as amended: from_klines on an empty list fails with the ValueError of
\* min() on the empty list of closes, before the average is computed; no
\* Volatility is returned, nothing is printed.
C8_EmptyRaisesValueError ==
  (klines = <<>> /\ pc # "from_klines") =>
    /\ pc = "raised"
    /\ err = "ValueError"
    /\ IsNone(vol)
    /\ stdout = <<>>

C8_Witness == klines = <<>> /\ pc = "raised" /\ err # ""

\* C9: Kline(values) fails, producing no Kline, on every record of fewer or
\* more than 12 elements; on a record of 12 elements that it parses, close is
\* the 5th element and the 12th is in no field (even one that is no number).
C9_TwelveElements ==
  pc # "Kline" =>
    /\ Len(values) # 12 => (pc = "raised" /\ err # "" /\ IsNone(kline))
    /\ pc = "done" =>
         /\ Len(values) = 12
         /\ kline.close = float(values[5])
         /\ Cardinality(DOMAIN kline) = 11
    /\ (Len(values) = 12 /\ \A i \in FloatFields : IsNumber(values[i])) => pc = "done"

\* a record of 13 numbers is refused, not truncated
C9_Witness ==
  /\ pc = "raised"
  /\ Len(values) = 13
  /\ \A i \in 1..13 : IsNumber(values[i])

\* the report print_summary writes for the i-th fetch of the run
Report(i) ==
  print_summary(from_klines(fetched[i].symbol, "1m", parse(fetched[i].outcome.klines)))

RECURSIVE Reports(_)
Reports(k) == IF k = 0 THEN <<>> ELSE Reports(k - 1) \o Report(k)

\* C2: when the fetch for the k-th symbol raises an exchange API error, the
\* reports of the symbols before it have been printed in full, nothing is
\* printed for it or a later symbol but the error, no later symbol is fetched,
\* and the process has exited with a non-zero status.
C2_FailFast ==
  \A k \in 1..Len(fetched) :
    fetched[k].outcome.raises = "BinanceAPIException" =>
      /\ pc = "exit"
      /\ status # 0
      /\ Len(fetched) = k
      /\ \A i \in 1..k : fetched[i].symbol = symbols[i]
      /\ stdout = Reports(k - 1) \o <<[line |-> "BinanceAPIException"]>>

\* three symbols, the fetch of the second raises
C2_Witness ==
  /\ Len(symbols) = 3
  /\ Len(fetched) = 2
  /\ fetched[2].outcome.raises = "BinanceAPIException"
  /\ Len(fetched[1].outcome.klines) = 3
  /\ pc = "exit"

\* whether credentials.secret can be read and holds a record with key and secret
CredentialsUsable(f) ==
  f.exists /\ f.readable /\ f.json = "object" /\ {"key", "secret"} \subseteq f.keys

\* C7: when the credentials file is missing, unreadable or malformed (not a
\* record with both key and secret), the run prints the message naming
\* credentials.secret and exits with a non-zero status; no client is
\* constructed and nothing is fetched.
C7_Original ==
  ~CredentialsUsable(credfile) =>
    /\ IsNone(client)
    /\ fetched = <<>>
    /\ pc = "exit" =>
         /\ status # 0
         /\ stdout = <<[line |-> "Failed to load credentials at",
                        path |-> "credentials.secret"]>>

\* print_summary has run on the Volatility of from_klines
PrintSummaryRan == pc = "done" \/ (pc = "raised" /\ ~IsNone(vol))

\* the thresholds of the ladder as '%.2f' of the percentage, in hundredths
LadderPct == <<3000, 2500, 2000, 1500, 1000, 500, 400, 300, 200, 100, 50, 25>>

\* the rows the table is to hold: one per threshold with a hit, in ladder order
RECURSIVE ExpectedRows(_, _)
ExpectedRows(v, i) ==
  IF i > Len(Ladder) THEN <<>>
  ELSE (IF v.high_hits[Ladder[i]] > 0 \/ v.low_hits[Ladder[i]] > 0
        THEN <<[line |-> "row", pct |-> LadderPct[i],
                high |-> v.high_hits[Ladder[i]], low |-> v.low_hits[Ladder[i]]]>>
        ELSE <<>>) \o ExpectedRows(v, i + 1)

IsRow(l) == l.line = "row"

LineKinds(out) == [i \in 1..Len(out) |-> out[i].line]

\* C4: print_summary prints a row for a threshold exactly when it has a hit
\* on either side, rows in ladder order, the header and its rule right before
\* the table exactly when there is a row; with no hit at all only the headline
\* and the price line are printed.
C4_Original ==
  PrintSummaryRan =>
    LET rows == ExpectedRows(vol, 1)
    IN /\ SelectSeq(stdout, IsRow) = rows
       /\ LineKinds(stdout) =
            <<"headline", "rule", "blank", "price", "blank">>
            \o (IF rows # <<>>
                THEN <<"header", "rule">> \o LineKinds(rows) \o <<"blank">>
                ELSE <<>>)

ConstantCloses(ks) ==
  Len(ks) >= 1 /\ \A i \in 1..Len(ks) : ks[i].close = ks[1].close

NoHits(v) ==
  \A t \in DOMAIN v.high_hits : v.high_hits[t] = 0 /\ v.low_hits[t] = 0

\* a and c differ by at most n units in the last place of c
WithinUlps(a, c, n) ==
  Abs(Mant(a, AlignExp(a, c)) - Mant(c, AlignExp(a, c)))
    <= n * Pow2(c[2] - AlignExp(a, c))

\* C5 as stated: on a constant list of closes of any length >= 1, min_close,
\* max_close and avg_close are equal and every threshold has 0 hits on both sides.
C5_Original ==
  (~IsNone(vol) /\ ConstantCloses(klines)) =>
    /\ vol.min_close = vol.max_close
    /\ vol.max_close = vol.avg_close
    /\ NoHits(vol)

\* C5 as amended: on a constant list of closes, min_close and max_close are the
\* close; avg_close is the close for a list of one bar and otherwise within
\* rounding of it (at most one unit in the last place per bar); every threshold
\* has 0 hits on both sides when the close is not negative, and 1 hit on both
\* sides when it is negative.
C5_ConstantCloses ==
  (~IsNone(vol) /\ ConstantCloses(klines)) =>
    LET c == klines[1].close
    IN /\ vol.min_close = c
       /\ vol.max_close = c
       /\ Len(klines) = 1 => vol.avg_close = c
       /\ WithinUlps(vol.avg_close, c, Len(klines))
       /\ c[1] >= 0 => NoHits(vol)
       /\ c[1] < 0 =>
            \A t \in DOMAIN vol.high_hits : vol.high_hits[t] = 1 /\ vol.low_hits[t] = 1

\* a constant list of positive closes whose mean is rounded away from the close
C5_Witness ==
  /\ ~IsNone(vol)
  /\ ConstantCloses(klines)
  /\ Len(klines) >= 2
  /\ klines[1].close[1] > 0
  /\ vol.avg_close # klines[1].close
  /\ NoHits(vol)

\* C10: with closes all strictly positive, a threshold with a hit has every
\* smaller threshold with a hit too, on each side, so the rows print_summary
\* prints are a tail of the ladder; the counts need not be monotone.
C10_DownwardClosed ==
  (~IsNone(vol) /\ AllClosesPositive(klines)) =>
    /\ \A t \in DOMAIN vol.high_hits : \A u \in DOMAIN vol.high_hits :
         flt(u, t) =>
           /\ vol.high_hits[t] > 0 => vol.high_hits[u] > 0
           /\ vol.low_hits[t] > 0 => vol.low_hits[u] > 0
    /\ pc # "raised"
    /\ pc = "done" =>
         \E k \in 1..(Len(LadderPct) + 1) :
           [i \in 1..Len(SelectSeq(stdout, IsRow)) |-> SelectSeq(stdout, IsRow)[i].pct]
             = SubSeq(LadderPct, k, Len(LadderPct))

\* positive closes where a larger threshold has more hits than a smaller one
C10_Witness ==
  /\ pc = "done"
  /\ AllClosesPositive(klines)
  /\ \E t \in DOMAIN vol.low_hits : \E u \in DOMAIN vol.low_hits :
       flt(u, t) /\ vol.low_hits[t] > vol.low_hits[u] /\ vol.low_hits[u] > 0
  /\ Len(SelectSeq(stdout, IsRow)) \in 1..11

\* high_hits of the list are low_hits of the mirrored list, and the converse
Symmetric ==
  \A t \in LadderValues :
    /\ vol.high_hits[t] = vol_mirrored.low_hits[t]
    /\ vol.low_hits[t] = vol_mirrored.high_hits[t]

\* the exponent of the largest of |avg_close| and the |close| of the bars
RECURSIVE MaxExp(_, _, _)
MaxExp(ks, i, best) ==
  IF i > Len(ks) THEN best
  ELSE MaxExp(ks, i + 1,
              IF ks[i].close[1] # 0 /\ (best[1] = 0 \/ ks[i].close[2] > best[2])
              THEN ks[i].close ELSE best)

\* a and b are more than n units in the last place of a number of exponent e apart
Apart(a, b, n, e) ==
  LET x == Min2(AlignExp(a, b), e)
  IN Abs(Mant(a, x) - Mant(b, x)) > n * Pow2(e - x)

\* every close is farther than the rounding error of the computation,
\* 5 * len + 10 units in the last place of the largest magnitude, from every
\* boundary avg_close * (1 + t), avg_close * (1 - t)
Separated ==
  LET e == MaxExp(klines, 1, vol.avg_close)[2]
  IN \A i \in 1..Len(klines) : \A t \in LadderValues :
       /\ Apart(klines[i].close, fmul(vol.avg_close, fadd(One, t)),
                5 * Len(klines) + 10, e)
       /\ Apart(klines[i].close, fmul(vol.avg_close, fadd(One, fneg(t))),
                5 * Len(klines) + 10, e)

\* C6 as stated: for every list and its mirrored list, high_hits of the one
\* equal low_hits of the other at every threshold, and the converse.
C6_Original == pc = "done" => Symmetric

\* C6 as amended: the same, provided every close is farther than the
\* floating-point tolerance from every boundary avg_close * (1 + t),
\* avg_close * (1 - t).
C6_SymmetricWithinTolerance == (pc = "done" /\ Separated) => Symmetric

\* a list with hits on both sides whose closes are clear of the boundaries
C6_Witness ==
  /\ pc = "done"
  /\ Separated
  /\ \E t \in LadderValues : vol.high_hits[t] > 0 /\ vol.high_hits[t] # vol.low_hits[t]
  /\ mirrored # klines

====
